---- MODULE Spec2Model ----
(***************************************************************************)
(* IAPchat: a message is inserted into the local SQLite store, written as  *)
(* a JSON file to every repository of config/repositories.json, and the    *)
(* commit hashes that came back are recorded in message_commits.           *)
(*                                                                         *)
(* Strings are sequences of tokens: "/" is the token str.split('/') cuts   *)
(* at and " " the token str.strip() removes.                               *)
(***************************************************************************)
EXTENDS Integers, Sequences, FiniteSets, TLC

VARIABLES
    messages,        \* table messages: rows in insertion order
    repositories,    \* table repositories: rows in insertion order
    message_commits, \* table message_commits: a set of rows
    config,          \* config/repositories.json: absent, or the list of targets
    remote,          \* per (owner, name, branch): the commits on that branch
    req,             \* the create_message request being served, or idle
    response,        \* the last response or return value handed to a caller
    acked            \* history: the 201 responses of POST /api/messages

vars == <<messages, repositories, message_commits, config, remote, req, response, acked>>

----------------------------------------------------------------------------
\* Bounds of the model

MaxMessages == 2

MaxTime == 2

MaxTargets == 2

MaxExternal == 1

MaxLimit == 2

\* The readings datetime.now().isoformat() can give, ordered as the strings are.
Times == 1..MaxTime

----------------------------------------------------------------------------
\* Strings

Slash == "/"

Space == " "

RECURSIVE lstrip(_)
lstrip(s) == IF s # <<>> /\ Head(s) = Space THEN lstrip(Tail(s)) ELSE s

RECURSIVE rstrip(_)
rstrip(s) ==
    IF s # <<>> /\ s[Len(s)] = Space THEN rstrip(SubSeq(s, 1, Len(s) - 1)) ELSE s

\* str.strip()
strip(s) == rstrip(lstrip(s))

\* f"{owner}/{name}"
repo_path(owner, name) == owner \o <<Slash>> \o name

\* str.split('/'): the list of the pieces between the slashes
RECURSIVE split(_)
split(s) ==
    IF \A i \in 1..Len(s) : s[i] # Slash
    THEN <<s>>
    ELSE LET i == CHOOSE j \in 1..Len(s) :
                      s[j] = Slash /\ \A k \in 1..(j - 1) : s[k] # Slash
         IN <<SubSeq(s, 1, i - 1)>> \o split(SubSeq(s, i + 1, Len(s)))

----------------------------------------------------------------------------
\* Inputs

DefaultOwner == <<"dth">>

DefaultName == <<"IAPchat">>

OtherOwner == <<"acme">>

OtherName == <<"chat">>

DefaultBranch == "main"

DefaultMessagePath == "messages"

Target(owner, name, branch, message_path) ==
    [owner |-> owner, name |-> name, branch |-> branch, message_path |-> message_path]

\* default_config of _load_repos_config
DefaultConfig == <<Target(DefaultOwner, DefaultName, "main", "messages")>>

NoOwner == <<>>

\* The bodies POSTed to /api/repositories: a key that is absent is has_* = FALSE.
RepoPayload(has_owner, owner, has_name, name) ==
    [has_owner |-> has_owner, owner |-> owner, has_name |-> has_name, name |-> name]

RepoPayloads ==
    { RepoPayload(TRUE, DefaultOwner, TRUE, DefaultName),
      RepoPayload(TRUE, OtherOwner, TRUE, OtherName),
      RepoPayload(TRUE, OtherOwner, FALSE, NoOwner),
      RepoPayload(FALSE, NoOwner, TRUE, OtherName) }

\* The repositories remove_repository is called for.
RepoKeys == { <<DefaultOwner, DefaultName>>, <<OtherOwner, OtherName>> }

Branches == { "main" }

BranchKeys == { <<k[1], k[2], b>> : k \in RepoKeys, b \in Branches }

\* The bodies POSTed to /api/messages: 'content' absent is has_content = FALSE.
MessagePayload(has_content, content) == [has_content |-> has_content, content |-> content]

ValidContents == { <<Space, "hi", Space>> }

BlankContents == { <<>>, <<Space, Space>> }

MessagePayloads ==
    { MessagePayload(TRUE, c) : c \in ValidContents \cup BlankContents }
        \cup { MessagePayload(FALSE, <<>>) }

----------------------------------------------------------------------------
\* Values

NoHashes == [k \in {} |-> 0]

\* outcomes is history: what became of each repo_config the loop has passed.
IdleReq ==
    [pc |-> "idle", message_id |-> 0, content |-> <<>>, timestamp |-> 0,
     stored_at |-> 0, idx |-> 0, commit_hashes |-> NoHashes, outcomes |-> <<>>]

\* list is the list a read returns, or the arguments of remove_repository;
\* content is the content of a message, or <<limit, offset>> of get_messages;
\* failing is history: the repositories whose fetch failed in get_all_messages,
\* or the <<position, call>> that raised in push_repositories;
\* replaced is history: the rows a call of update_message_commits replaced.
NoResponse ==
    [op |-> "none", status |-> 0, id |-> 0, content |-> <<>>, timestamp |-> 0,
     repositories |-> NoHashes, list |-> <<>>, failing |-> {}, replaced |-> {}]

Response(op, status) == [NoResponse EXCEPT !.op = op, !.status = status]

\* HTTPStatus
OK == 200

CREATED == 201

BAD_REQUEST == 400

INTERNAL_SERVER_ERROR == 500

----------------------------------------------------------------------------
\* database.py

Max(S) == CHOOSE x \in S : \A y \in S : y <= x

Range(f) == { f[i] : i \in DOMAIN f }

\* AUTOINCREMENT: one more than the largest id the table has held; no row of
\* messages or repositories is ever deleted, so that is the largest id present.
NextId(table) == Max({0} \cup { r.id : r \in Range(table) }) + 1

MessageIds == { m.id : m \in Range(messages) }

\* SELECT id FROM repositories WHERE owner = ? AND name = ?  (fetchone)
repository_rows(owner, name) ==
    { r \in Range(repositories) : r.owner = owner /\ r.name = name }

\* ChatDatabase.add_repository: INSERT OR IGNORE under UNIQUE(owner, name)
db_add_repository(owner, name) ==
    IF repository_rows(owner, name) # {}
    THEN [id |-> (CHOOSE r \in repository_rows(owner, name) : TRUE).id,
          table |-> repositories]
    ELSE [id |-> NextId(repositories),
          table |-> Append(repositories,
                           [id |-> NextId(repositories), owner |-> owner, name |-> name])]

AddMessageReplacing(content, timestamp) ==
    [id |-> 1, table |-> <<[id |-> 1, content |-> content, timestamp |-> timestamp]>>]

\* ChatDatabase.add_message
db_add_message(content, timestamp) ==
    [id |-> NextId(messages),
     table |-> Append(messages,
                      [id |-> NextId(messages), content |-> content,
                       timestamp |-> timestamp])]

InsertOnly(rows, row) == rows \cup {row}

\* INSERT OR REPLACE INTO message_commits under UNIQUE(message_id, repository_id):
\* the row in conflict is deleted, the new one inserted.
InsertOrReplace(rows, row) ==
    { r \in rows : ~(r.message_id = row.message_id
                      /\ r.repository_id = row.repository_id) } \cup {row}

ForeignKeysOff(message_id) == TRUE

\* FOREIGN KEY (message_id) REFERENCES messages(id), enforced on the connection
\* by "PRAGMA foreign_keys = ON"
references_message(message_id) == message_id \in MessageIds

\* The body of the loop of update_message_commits over commit_hashes.items():
\* the split raises ValueError unless it gives two pieces, a repository that has
\* no row is skipped, and the insert raises when message_id is no message
\* (FOREIGN KEY, PRAGMA foreign_keys = ON).
RECURSIVE upsert_items(_, _, _, _)
upsert_items(rows, message_id, commit_hashes, todo) ==
    IF todo = {}
    THEN [raised |-> FALSE, rows |-> rows]
    ELSE LET key == CHOOSE k \in todo : TRUE
             parts == split(key)
         IN IF Len(parts) # 2
            THEN [raised |-> TRUE, rows |-> rows]
            ELSE LET found == repository_rows(parts[1], parts[2])
                 IN IF found = {}
                    THEN upsert_items(rows, message_id, commit_hashes, todo \ {key})
                    ELSE IF ~references_message(message_id)
                    THEN [raised |-> TRUE, rows |-> rows]
                    ELSE upsert_items(
                             InsertOrReplace(rows,
                                 [message_id |-> message_id,
                                  repository_id |-> (CHOOSE r \in found : TRUE).id,
                                  commit_hash |-> commit_hashes[key]]),
                             message_id, commit_hashes, todo \ {key})

\* ChatDatabase.update_message_commits: one transaction ("with self.conn"),
\* rolled back when the loop raises.
update_message_commits(message_id, commit_hashes) ==
    LET done == upsert_items(message_commits, message_id, commit_hashes,
                             DOMAIN commit_hashes)
    IN IF done.raised THEN [raised |-> TRUE, rows |-> message_commits] ELSE done

\* The same loop, the items taken in the order the dict holds them
RECURSIVE upsert_in_order(_, _, _, _)
upsert_in_order(rows, message_id, commit_hashes, keys) ==
    IF keys = <<>>
    THEN [raised |-> FALSE, rows |-> rows]
    ELSE LET key == Head(keys)
             parts == split(key)
         IN IF Len(parts) # 2
            THEN [raised |-> TRUE, rows |-> rows]
            ELSE LET found == repository_rows(parts[1], parts[2])
                 IN IF found = {}
                    THEN upsert_in_order(rows, message_id, commit_hashes, Tail(keys))
                    ELSE IF ~references_message(message_id)
                    THEN [raised |-> TRUE, rows |-> rows]
                    ELSE upsert_in_order(
                             InsertOrReplace(rows,
                                 [message_id |-> message_id,
                                  repository_id |-> (CHOOSE r \in found : TRUE).id,
                                  commit_hash |-> commit_hashes[key]]),
                             message_id, commit_hashes, Tail(keys))

UpdateWithoutRollback(message_id, commit_hashes, keys) ==
    upsert_in_order(message_commits, message_id, commit_hashes, keys)

\* ChatDatabase.update_message_commits for a dict whose keys are in a given
\* order: "with self.conn" commits when the loop ends and rolls back when it
\* raises, whatever the exception.
update_message_commits_in_order(message_id, commit_hashes, keys) ==
    LET done == upsert_in_order(message_commits, message_id, commit_hashes, keys)
    IN IF done.raised THEN [raised |-> TRUE, rows |-> message_commits] ELSE done

NULL == <<>>

JoinRowsInner ==
    { [id |-> m.id, content |-> m.content, timestamp |-> m.timestamp,
       owner |-> r.owner, name |-> r.name, commit_hash |-> mc.commit_hash]
      : <<m, mc, r>> \in { x \in Range(messages) \X message_commits \X Range(repositories) :
                              x[1].id = x[2].message_id /\ x[2].repository_id = x[3].id } }

\* FROM messages m LEFT JOIN message_commits mc ON m.id = mc.message_id
\*                 LEFT JOIN repositories r ON mc.repository_id = r.id
JoinRows ==
    UNION { LET mcs == { mc \in message_commits : mc.message_id = m.id }
            IN IF mcs = {}
               THEN { [id |-> m.id, content |-> m.content, timestamp |-> m.timestamp,
                       owner |-> NULL, name |-> NULL, commit_hash |-> NULL] }
               ELSE UNION { LET rs == { r \in Range(repositories) :
                                          r.id = mc.repository_id }
                            IN IF rs = {}
                               THEN { [id |-> m.id, content |-> m.content,
                                       timestamp |-> m.timestamp, owner |-> NULL,
                                       name |-> NULL, commit_hash |-> mc.commit_hash] }
                               ELSE { [id |-> m.id, content |-> m.content,
                                       timestamp |-> m.timestamp, owner |-> r.owner,
                                       name |-> r.name, commit_hash |-> mc.commit_hash]
                                      : r \in rs }
                          : mc \in mcs }
          : m \in Range(messages) }

RECURSIVE OrderByTimestampAsc(_)
OrderByTimestampAsc(rows) ==
    IF rows = {}
    THEN { <<>> }
    ELSE UNION { { <<r>> \o rest : rest \in OrderByTimestampAsc(rows \ {r}) }
                 : r \in { x \in rows : \A y \in rows : x.timestamp <= y.timestamp } }

\* ORDER BY m.timestamp DESC: every order of the rows in which the timestamps
\* do not increase; SQL leaves the order of rows with equal timestamps open.
RECURSIVE OrderByTimestampDesc(_)
OrderByTimestampDesc(rows) ==
    IF rows = {}
    THEN { <<>> }
    ELSE UNION { { <<r>> \o rest : rest \in OrderByTimestampDesc(rows \ {r}) }
                 : r \in { x \in rows : \A y \in rows : y.timestamp <= x.timestamp } }

\* LIMIT ? OFFSET ?
LimitOffset(rows, limit, offset) ==
    SubSeq(rows, offset + 1, IF offset + limit < Len(rows) THEN offset + limit ELSE Len(rows))

\* "if row[4] and row[5]": the row carries repository info
HasRepository(row) == row.owner # NULL /\ row.name # NULL

\* The grouping loop of get_messages: a dict keyed by message id, in the order
\* the ids first appear, each with the repositories dict of its rows.
RECURSIVE GroupByMessage(_, _)
GroupByMessage(rows, out) ==
    IF rows = <<>>
    THEN out
    ELSE LET row == Head(rows)
             at == { i \in DOMAIN out : out[i].id = row.id }
             base == IF at = {}
                     THEN Append(out, [id |-> row.id, content |-> row.content,
                                       timestamp |-> row.timestamp,
                                       repositories |-> NoHashes])
                     ELSE out
             i == CHOOSE j \in DOMAIN base : base[j].id = row.id
             key == repo_path(row.owner, row.name)
             old == base[i].repositories
             new == IF HasRepository(row)
                    THEN [k \in DOMAIN old \cup {key} |->
                              IF k = key THEN row.commit_hash ELSE old[k]]
                    ELSE old
         IN GroupByMessage(Tail(rows), [base EXCEPT ![i].repositories = new])

\* ChatDatabase.get_messages: every list the call may return
get_messages(limit, offset) ==
    { GroupByMessage(LimitOffset(rows, limit, offset), <<>>)
      : rows \in OrderByTimestampDesc(JoinRows) }

\* get_messages(limit: int = 100, offset: int = 0)
DefaultLimit == 100

----------------------------------------------------------------------------
\* multi_repo_handler.py

\* MultiRepoHandler._load_repos_config: the file as it is after the call, which
\* every request makes when its handler is constructed.
load_repos_config ==
    IF config.exists THEN config ELSE [exists |-> TRUE, repos |-> DefaultConfig]

\* self.repos_config of the handler serving the request
repos_config == load_repos_config.repos

BranchOf(t) == <<t.owner, t.name, t.branch>>

\* f"{repo_config['message_path']}/message_{message_id}.json"
file_path(t, message_id) == <<t.message_path, message_id>>

\* message_data of store_message
Envelope(message_id, content, timestamp) ==
    [id |-> message_id, content |-> content, timestamp |-> timestamp]

FileExists(bk, path) == \E i \in DOMAIN remote[bk] : remote[bk][i].path = path

\* The sha of the n-th commit of a branch; 0 is the commit the branch began with.
Sha(bk, n) == <<bk, n>>

\* repo.get_branch(branch).commit.sha
HeadSha(bk) == Sha(bk, Len(remote[bk]))

\* repo.create_file(path, message, content, branch): one commit on the branch.
\* The contents API refuses a path that exists when no sha is given.
create_file(bk, path, envelope) ==
    [remote EXCEPT ![bk] = Append(@, [path |-> path, envelope |-> envelope])]

\* commit_hashes[f"{owner}/{name}"] = commit.sha
SetHash(commit_hashes, key, sha) ==
    [k \in DOMAIN commit_hashes \cup {key} |-> IF k = key THEN sha ELSE commit_hashes[k]]

ReturnAfterFirst(r) == [r EXCEPT !.pc = "record", !.idx = 0]

\* The loop of store_message moves to the next repo_config, or returns.
NextTarget(r) ==
    IF r.idx + 1 > Len(repos_config)
    THEN [r EXCEPT !.pc = "record", !.idx = 0]
    ELSE [r EXCEPT !.pc = "create", !.idx = r.idx + 1]

\* existed: the target held the message's file before it was attempted.
Outcome(t, ok, why, sha, existed) ==
    [key |-> repo_path(t.owner, t.name), ok |-> ok, why |-> why, sha |-> sha,
     existed |-> existed]

ExistedBefore(r) ==
    /\ r.pc = "create"
    /\ FileExists(BranchOf(repos_config[r.idx]), file_path(repos_config[r.idx], r.message_id))

AfterFailureAbort(r, why) ==
    [r EXCEPT !.pc = "record", !.idx = 0,
              !.outcomes = Append(@, Outcome(repos_config[r.idx], FALSE, why, <<>>,
                                             ExistedBefore(r)))]

AfterFailureBlocks(r, why) == [r EXCEPT !.pc = "blocked"]

\* "except Exception as e: print(...)": the target gets no entry and the loop
\* goes on. why is "unavailable" (a remote call failed) or "exists" (create_file
\* was refused because the path exists).
AfterFailure(r, why) ==
    NextTarget([r EXCEPT !.outcomes =
                    Append(@, Outcome(repos_config[r.idx], FALSE, why, <<>>,
                                      ExistedBefore(r)))])

\* The end of the try block: the head of the branch is the target's entry.
AfterSuccess(r) ==
    LET t == repos_config[r.idx]
        sha == HeadSha(BranchOf(t))
    IN NextTarget([r EXCEPT
           !.commit_hashes = SetHash(@, repo_path(t.owner, t.name), sha),
           !.outcomes = Append(@, Outcome(t, TRUE, "stored", sha, FALSE))])

\* The files the contents API lists under a target's message_path on the default
\* branch, by name, each fetched and tagged with its repository.
RECURSIVE ListedEnvelopes(_, _)
ListedEnvelopes(t, ids) ==
    IF ids = {}
    THEN <<>>
    ELSE LET bk == <<t.owner, t.name, DefaultBranch>>
             id == CHOOSE i \in ids : \A j \in ids : i <= j
             c == CHOOSE c \in Range(remote[bk]) : c.path = file_path(t, id)
         IN <<[id |-> c.envelope.id, content |-> c.envelope.content,
               timestamp |-> c.envelope.timestamp,
               repository |-> repo_path(t.owner, t.name)]>>
            \o ListedEnvelopes(t, ids \ {id})

\* MultiRepoHandler._fetch_messages_from_repo: [] when the fetch fails
fetch_messages_from_repo(t, fails) ==
    LET bk == <<t.owner, t.name, DefaultBranch>>
    IN IF fails \/ bk \notin DOMAIN remote
       THEN <<>>
       ELSE ListedEnvelopes(t, { c.path[2] : c \in { x \in Range(remote[bk]) :
                                                     x.path[1] = t.message_path } })

\* list.sort(key=lambda x: x['timestamp']): stable
RECURSIVE InsertByTimestamp(_, _)
InsertByTimestamp(sorted, x) ==
    IF sorted = <<>>
    THEN <<x>>
    ELSE IF sorted[Len(sorted)].timestamp <= x.timestamp
    THEN Append(sorted, x)
    ELSE Append(InsertByTimestamp(SubSeq(sorted, 1, Len(sorted) - 1), x),
                sorted[Len(sorted)])

Unsorted(xs) == xs

RECURSIVE SortByTimestamp(_)
SortByTimestamp(xs) ==
    IF xs = <<>>
    THEN <<>>
    ELSE InsertByTimestamp(SortByTimestamp(SubSeq(xs, 1, Len(xs) - 1)), xs[Len(xs)])

GatherFirstOnly(targets, failing) ==
    IF targets = <<>>
    THEN <<>>
    ELSE fetch_messages_from_repo(targets[1], 1 \in failing)

\* results of asyncio.gather, extended into all_messages in the order of repos_config
RECURSIVE Gathered(_, _)
Gathered(targets, failing) ==
    IF targets = <<>>
    THEN <<>>
    ELSE Gathered(SubSeq(targets, 1, Len(targets) - 1), failing)
         \o fetch_messages_from_repo(targets[Len(targets)], Len(targets) \in failing)

\* MultiRepoHandler.get_all_messages
get_all_messages(failing) == SortByTimestamp(Gathered(repos_config, failing))

----------------------------------------------------------------------------
\* The state after installation: empty tables, no config/repositories.json,
\* and nothing written to the remote branches.

Init ==
    /\ messages = <<>>
    /\ repositories = <<>>
    /\ message_commits = {}
    /\ config = [exists |-> FALSE, repos |-> <<>>]
    /\ remote = [bk \in BranchKeys |-> <<>>]
    /\ req = IdleReq
    /\ response = NoResponse
    /\ acked = {}

----------------------------------------------------------------------------
\* server.py

InvalidMessageNoStrip(p) == ~p.has_content \/ p.content = <<>>

\* "'content' not in message_data or not message_data['content'].strip()"
InvalidMessage(p) == ~p.has_content \/ strip(p.content) = <<>>

\* The row handle_new_message inserts: the content as posted.
StoredContent(p) == p.content

\* POST /api/messages, up to the loop of store_message: validation, the insert
\* with the handler's datetime.now(), then store_message's own datetime.now().
PostMessage ==
    /\ req.pc = "idle"
    /\ config' = load_repos_config
    /\ \E p \in MessagePayloads :
         \/ /\ InvalidMessage(p)
            /\ response' = Response("POST /api/messages", BAD_REQUEST)
            /\ UNCHANGED <<messages, req>>
         \/ /\ ~InvalidMessage(p)
            /\ Len(messages) < MaxMessages
            /\ \E now \in Times : \E stored_at \in { t \in Times : t >= now } :
                 LET added == db_add_message(StoredContent(p), now)
                 IN /\ messages' = added.table
                    /\ req' = [pc |-> IF repos_config = <<>> THEN "record" ELSE "create",
                               message_id |-> added.id, content |-> p.content,
                               timestamp |-> now, stored_at |-> stored_at,
                               idx |-> IF repos_config = <<>> THEN 0 ELSE 1,
                               commit_hashes |-> NoHashes, outcomes |-> <<>>]
            /\ response' = NoResponse
    /\ UNCHANGED <<repositories, message_commits, remote, acked>>

\* store_message, one repo_config: get_repo and create_file
StoreCreate ==
    /\ req.pc = "create"
    /\ LET t == repos_config[req.idx]
           bk == BranchOf(t)
           path == file_path(t, req.message_id)
       IN \/ /\ ~FileExists(bk, path)
             /\ remote' = create_file(bk, path,
                              Envelope(req.message_id, req.content, req.stored_at))
             /\ req' = [req EXCEPT !.pc = "head"]
          \/ /\ FileExists(bk, path)
             /\ req' = AfterFailure(req, "exists")
             /\ UNCHANGED remote
          \/ /\ req' = AfterFailure(req, "unavailable")
             /\ UNCHANGED remote
    /\ UNCHANGED <<messages, repositories, message_commits, config, response, acked>>

\* store_message, one repo_config: get_branch and the entry of commit_hashes
StoreHead ==
    /\ req.pc = "head"
    /\ \/ req' = AfterSuccess(req)
       \/ req' = AfterFailure(req, "unavailable")
    /\ UNCHANGED <<messages, repositories, message_commits, config, remote,
                   response, acked>>

\* The 201 body of handle_new_message
Created(r) ==
    [Response("POST /api/messages", CREATED) EXCEPT
        !.id = r.message_id, !.content = r.content, !.timestamp = r.timestamp,
        !.repositories = r.commit_hashes]

NewMessageResponseNeedsCommit(r, raised) ==
    IF raised \/ r.commit_hashes = NoHashes
    THEN Response("POST /api/messages", INTERNAL_SERVER_ERROR)
    ELSE Created(r)

\* The response of handle_new_message: 201, or 500 from "except Exception".
NewMessageResponse(r, raised) ==
    IF raised THEN Response("POST /api/messages", INTERNAL_SERVER_ERROR) ELSE Created(r)

\* "if commit_hashes: self.db.update_message_commits(message_id, commit_hashes)"
record_commits(message_id, commit_hashes) ==
    IF commit_hashes = NoHashes
    THEN [raised |-> FALSE, rows |-> message_commits]
    ELSE update_message_commits(message_id, commit_hashes)

\* handle_new_message after store_message returned: the ledger update, then
\* the response.
RecordAndRespond ==
    /\ req.pc = "record"
    /\ LET done == record_commits(req.message_id, req.commit_hashes)
           sent == NewMessageResponse(req, done.raised)
       IN /\ message_commits' = done.rows
          /\ response' = sent
          /\ acked' = IF sent.status = CREATED THEN acked \cup {sent} ELSE acked
    /\ req' = IdleReq
    /\ UNCHANGED <<messages, repositories, config, remote>>

\* "not all(k in repo_data for k in ['owner', 'name'])"
InvalidRepo(p) == ~(p.has_owner /\ p.has_name)

\* MultiRepoHandler.add_repository once get_repo has answered: the target is
\* appended and the file rewritten unless the same dict is already listed.
git_add_repository(owner, name, branch, message_path) ==
    LET new_repo == Target(owner, name, branch, message_path)
    IN IF new_repo \in Range(repos_config)
       THEN load_repos_config
       ELSE [exists |-> TRUE, repos |-> Append(repos_config, new_repo)]

\* POST /api/repositories: the body is checked, db.add_repository runs, then
\* git.add_repository, whose get_repo may raise; "except Exception" answers 500.
PostRepository ==
    /\ req.pc = "idle"
    /\ \E p \in RepoPayloads :
         \/ /\ InvalidRepo(p)
            /\ response' = Response("POST /api/repositories", BAD_REQUEST)
            /\ config' = load_repos_config
            /\ UNCHANGED repositories
         \/ /\ ~InvalidRepo(p)
            /\ response' = Response("POST /api/repositories", INTERNAL_SERVER_ERROR)
            /\ config' = load_repos_config
            /\ repositories' = db_add_repository(p.owner, p.name).table
         \/ /\ ~InvalidRepo(p)
            /\ Len(git_add_repository(p.owner, p.name, "main", "messages").repos)
                   <= MaxTargets
            /\ LET added == db_add_repository(p.owner, p.name)
               IN /\ repositories' = added.table
                  /\ config' = git_add_repository(p.owner, p.name, "main", "messages")
                  /\ response' = [Response("POST /api/repositories", CREATED)
                                    EXCEPT !.id = added.id]
    /\ UNCHANGED <<messages, message_commits, remote, req, acked>>

RemoveEveryTarget(owner, name) == [exists |-> TRUE, repos |-> <<>>]

\* MultiRepoHandler.remove_repository
remove_repository(owner, name) ==
    [exists |-> TRUE,
     repos |-> SelectSeq(repos_config, LAMBDA t : ~(t.owner = owner /\ t.name = name))]

RemoveRepository ==
    /\ req.pc = "idle"
    /\ \E k \in RepoKeys :
         /\ config' = remove_repository(k[1], k[2])
         /\ response' = [Response("remove_repository", 0) EXCEPT !.list = <<k>>]
    /\ UNCHANGED <<messages, repositories, message_commits, remote, req, acked>>

\* GET /api/messages: send_messages
SendMessages ==
    /\ req.pc = "idle"
    /\ config' = load_repos_config
    /\ \E l \in get_messages(DefaultLimit, 0) :
         response' = [Response("GET /api/messages", OK) EXCEPT !.list = l]
    /\ UNCHANGED <<messages, repositories, message_commits, remote, req, acked>>

\* get_all_messages, the fetch of any of the repositories failing
GetAllMessages ==
    /\ req.pc = "idle"
    /\ config' = load_repos_config
    /\ \E failing \in SUBSET (1..Len(repos_config)) :
         response' = [Response("get_all_messages", 0) EXCEPT
                        !.list = get_all_messages(failing), !.failing = failing]
    /\ UNCHANGED <<messages, repositories, message_commits, remote, req, acked>>

\* The web application: the requests of server.py and the registry's removal
Next ==
    \/ PostMessage
    \/ StoreCreate
    \/ StoreHead
    \/ RecordAndRespond
    \/ PostRepository
    \/ RemoveRepository
    \/ SendMessages

Spec == Init /\ [][Next]_vars

\* ChatDatabase(db_path) where no database file is: run_server(db_path=...)
\* on a new path, or the test suite, which removes its database directory when
\* it ends. The tables are new, ids start again at 1; the registry document
\* and the remote repositories are what they were.
NewDatabase ==
    /\ req.pc = "idle"
    /\ messages # <<>>
    /\ messages' = <<>>
    /\ repositories' = <<>>
    /\ message_commits' = {}
    /\ acked' = {}
    /\ response' = Response("ChatDatabase", 0)
    /\ UNCHANGED <<config, remote, req>>

\* The requests server.py routes that write, and the server started again on
\* a new database
NextFreshDb ==
    \/ PostMessage
    \/ StoreCreate
    \/ StoreHead
    \/ RecordAndRespond
    \/ PostRepository
    \/ NewDatabase

SpecFreshDb == Init /\ [][NextFreshDb]_vars

\* The rows a call names and finds: (message_id, repository_id) pairs
NamedPairs(message_id, commit_hashes) ==
    { <<message_id, r.id>> : r \in { x \in Range(repositories) :
                                        repo_path(x.owner, x.name) \in DOMAIN commit_hashes } }

\* The hashes a caller hands to update_message_commits
CallHashes == { Sha(<<DefaultOwner, DefaultName, DefaultBranch>>, n) : n \in {1, 2} }

CallKeys == { repo_path(k[1], k[2]) : k \in RepoKeys }

CallMaps == UNION { [keys -> CallHashes] : keys \in SUBSET CallKeys }

\* ChatDatabase.update_message_commits called by any caller, for any message id
UpdateMessageCommits ==
    /\ req.pc = "idle"
    /\ \E message_id \in 1..MaxMessages, commit_hashes \in CallMaps :
         LET done == update_message_commits(message_id, commit_hashes)
         IN /\ message_commits' = done.rows
            /\ response' = [Response("update_message_commits",
                                     IF done.raised THEN INTERNAL_SERVER_ERROR ELSE OK)
                               EXCEPT !.id = message_id,
                                      !.repositories = commit_hashes,
                                      !.replaced = message_commits \ done.rows]
    /\ UNCHANGED <<messages, repositories, config, remote, req, acked>>

\* ChatDatabase.add_message called by any caller
AddMessage ==
    /\ req.pc = "idle"
    /\ Len(messages) < MaxMessages
    /\ \E content \in ValidContents, timestamp \in Times :
         LET added == db_add_message(content, timestamp)
         IN /\ messages' = added.table
            /\ response' = [Response("add_message", OK) EXCEPT !.id = added.id]
    /\ UNCHANGED <<repositories, message_commits, config, remote, req, acked>>

\* ChatDatabase.add_repository called by any caller
AddRepository ==
    /\ req.pc = "idle"
    /\ \E k \in RepoKeys :
         LET added == db_add_repository(k[1], k[2])
         IN /\ repositories' = added.table
            /\ response' = [Response("add_repository", OK) EXCEPT !.id = added.id]
    /\ UNCHANGED <<messages, message_commits, config, remote, req, acked>>

\* ChatDatabase, its three writing methods called in any order
NextLedger ==
    \/ AddMessage
    \/ AddRepository
    \/ UpdateMessageCommits

SpecLedger == Init /\ [][NextLedger]_vars

\* ChatDatabase.get_messages called by any caller with a limit and an offset
GetMessages ==
    /\ req.pc = "idle"
    /\ \E limit \in 1..MaxLimit, offset \in 0..(MaxLimit - 1) :
         \E l \in get_messages(limit, offset) :
             response' = [Response("get_messages", OK) EXCEPT
                            !.content = <<limit, offset>>, !.list = l]
    /\ UNCHANGED <<messages, repositories, message_commits, config, remote, req, acked>>

\* ChatDatabase, written and read page by page
NextPages ==
    \/ AddMessage
    \/ AddRepository
    \/ UpdateMessageCommits
    \/ GetMessages

SpecPages == Init /\ [][NextPages]_vars

\* A key that is no "owner/name": split('/') gives one piece
MalformedKey == <<"acme">>

\* The maps a caller may hand over, a malformed key among their keys
AnyCallMaps ==
    UNION { [keys -> { Sha(<<DefaultOwner, DefaultName, DefaultBranch>>, 1) }]
            : keys \in SUBSET (CallKeys \cup {MalformedKey}) }

\* The orders in which a dict may hold the keys of a map
KeyOrders(commit_hashes) ==
    { order \in [1..Cardinality(DOMAIN commit_hashes) -> DOMAIN commit_hashes] :
          \A i, j \in DOMAIN order : i # j => order[i] # order[j] }

\* ChatDatabase.update_message_commits called with any map, in any key order
UpdateMessageCommitsInOrder ==
    /\ req.pc = "idle"
    /\ \E message_id \in 1..MaxMessages, commit_hashes \in AnyCallMaps :
         \E keys \in KeyOrders(commit_hashes) :
             LET done == update_message_commits_in_order(message_id, commit_hashes, keys)
             IN /\ message_commits' = done.rows
                /\ response' = [Response("update_message_commits",
                                         IF done.raised THEN INTERNAL_SERVER_ERROR ELSE OK)
                                   EXCEPT !.id = message_id,
                                          !.repositories = commit_hashes,
                                          !.list = keys]
    /\ UNCHANGED <<messages, repositories, config, remote, req, acked>>

\* ChatDatabase written by calls that may raise part-way
NextAtomic ==
    \/ AddMessage
    \/ AddRepository
    \/ UpdateMessageCommitsInOrder

SpecAtomic == Init /\ [][NextAtomic]_vars

\* The writes of the web application, read back from the remotes
NextRemote ==
    \/ PostMessage
    \/ StoreCreate
    \/ StoreHead
    \/ RecordAndRespond
    \/ PostRepository
    \/ RemoveRepository
    \/ GetAllMessages

SpecRemote == Init /\ [][NextRemote]_vars

\* The branch and message_path a caller of add_repository may give
RegistryBranches == { "main", "dev" }

RegistryPaths == { "messages", "archive" }

\* MultiRepoHandler.add_repository called by any caller: get_repo raises, which
\* becomes ValueError before the registry is touched, or the target is added.
GitAddRepository ==
    /\ req.pc = "idle"
    /\ \E k \in RepoKeys, branch \in RegistryBranches, message_path \in RegistryPaths :
         \/ /\ config' = load_repos_config
            /\ response' = Response("add_repository", INTERNAL_SERVER_ERROR)
         \/ /\ Len(git_add_repository(k[1], k[2], branch, message_path).repos)
                   <= MaxTargets
            /\ config' = git_add_repository(k[1], k[2], branch, message_path)
            /\ response' = Response("add_repository", OK)
    /\ UNCHANGED <<messages, repositories, message_commits, remote, req, acked>>

\* The registry document, its two writing methods called in any order
NextRegistry ==
    \/ GitAddRepository
    \/ RemoveRepository

SpecRegistry == Init /\ [][NextRegistry]_vars

\* POST /api/messages when the INSERT of add_message raises sqlite3.Error (the
\* database is locked or cannot be written): "with self.conn" rolls back and
\* "except Exception" answers 500.
PostMessageInsertFails ==
    /\ req.pc = "idle"
    /\ config' = load_repos_config
    /\ \E p \in MessagePayloads : ~InvalidMessage(p)
    /\ response' = Response("POST /api/messages", INTERNAL_SERVER_ERROR)
    /\ UNCHANGED <<messages, repositories, message_commits, remote, req, acked>>

\* handle_new_message after store_message returned a map that is not empty,
\* when update_message_commits raises sqlite3.Error: its transaction is rolled
\* back and "except Exception" answers 500.
RecordFails ==
    /\ req.pc = "record"
    /\ req.commit_hashes # NoHashes
    /\ response' = NewMessageResponse(req, TRUE)
    /\ req' = IdleReq
    /\ UNCHANGED <<messages, repositories, message_commits, config, remote, acked>>

\* The requests server.py routes that write, the local store failing at any
\* of its writes
NextLocalFailure ==
    \/ PostMessage
    \/ PostMessageInsertFails
    \/ StoreCreate
    \/ StoreHead
    \/ RecordAndRespond
    \/ RecordFails
    \/ PostRepository

SpecLocalFailure == Init /\ [][NextLocalFailure]_vars

\* store_message, one repo_config, when the repository does not answer a call:
\* the client built by Github(self.token) gives up the request after its
\* timeout and raises, which "except Exception" catches like any failure.
StoreTimesOut ==
    /\ req.pc \in { "create", "head" }
    /\ req' = AfterFailure(req, "timeout")
    /\ UNCHANGED <<messages, repositories, message_commits, config, remote,
                   response, acked>>

\* The requests server.py routes that write, a target not answering
NextLive ==
    \/ PostMessage
    \/ StoreCreate
    \/ StoreHead
    \/ StoreTimesOut
    \/ RecordAndRespond
    \/ PostRepository

\* The handler is one thread running handle_new_message to its end: a call in
\* progress returns or raises and the next statement runs.
SpecLive ==
    /\ Init
    /\ [][NextLive]_vars
    /\ WF_vars(StoreCreate \/ StoreHead \/ StoreTimesOut)
    /\ WF_vars(RecordAndRespond)

\* A commit the application did not make: a push to the repository by another
\* process or another user. It writes no message file.
ExternalCommits(bk) == { i \in DOMAIN remote[bk] : remote[bk][i].path[1] = "external" }

ExternalCommit ==
    /\ Cardinality(UNION { { <<bk, i>> : i \in ExternalCommits(bk) } : bk \in BranchKeys })
           < MaxExternal
    /\ \E bk \in BranchKeys :
         remote' = create_file(bk, <<"external", 0>>, Envelope(0, <<>>, 0))
    /\ UNCHANGED <<messages, repositories, message_commits, config, req, response, acked>>

\* The requests server.py routes that write, while others push to the
\* repositories
NextInterleaved ==
    \/ PostMessage
    \/ StoreCreate
    \/ StoreHead
    \/ RecordAndRespond
    \/ PostRepository
    \/ ExternalCommit

SpecInterleaved == Init /\ [][NextInterleaved]_vars

----------------------------------------------------------------------------
\* cli.py

\* What push_repositories prints for one repository
PushLine(t, status, sha) ==
    [repository |-> repo_path(t.owner, t.name), status |-> status, sha |-> sha]

RECURSIVE push_from(_, _, _)

PushErrorAborts(repos, raising, i) == <<>>

\* "except Exception as e: print(...)" and "continue": the for loop goes on
\* with the next repo_config.
AfterPushError(repos, raising, i) == push_from(repos, raising, i + 1)

\* The for loop of push_repositories from the i-th repo_config on: get_repo,
\* then get_branch inside its own try, then the line of success.
push_from(repos, raising, i) ==
    IF i > Len(repos)
    THEN <<>>
    ELSE LET t == repos[i]
             bk == BranchOf(t)
         IN IF <<i, "get_repo">> \in raising
            THEN <<PushLine(t, "error", NULL)>> \o AfterPushError(repos, raising, i)
            ELSE IF <<i, "get_branch">> \in raising \/ bk \notin DOMAIN remote
            THEN <<PushLine(t, "warning", NULL)>> \o AfterPushError(repos, raising, i)
            ELSE <<PushLine(t, "pushed", HeadSha(bk))>> \o push_from(repos, raising, i + 1)

\* push_repositories(token, repos)
push_repositories(repos, raising) == push_from(repos, raising, 1)

\* The calls of one run that raise: at most one per repository
PushFailures(repos) ==
    { raising \in SUBSET ((1..Len(repos)) \X { "get_repo", "get_branch" }) :
          \A x, y \in raising : x[1] = y[1] => x = y }

\* "cli.py push": load_repos_config exits when there is no repositories.json
PushRepositories ==
    /\ req.pc = "idle"
    /\ config.exists
    /\ \E raising \in PushFailures(config.repos) :
         response' = [Response("push_repositories", 0) EXCEPT
                        !.list = push_repositories(config.repos, raising),
                        !.failing = raising]
    /\ UNCHANGED <<messages, repositories, message_commits, config, remote, req, acked>>

\* The registry written by the web application and pushed by the CLI
NextPush ==
    \/ PostRepository
    \/ RemoveRepository
    \/ PushRepositories

SpecPush == Init /\ [][NextPush]_vars

\* Every operation of the web application and of the CLI
NextAll ==
    \/ PostMessage
    \/ StoreCreate
    \/ StoreHead
    \/ RecordAndRespond
    \/ PostRepository
    \/ RemoveRepository
    \/ SendMessages
    \/ GetAllMessages
    \/ PushRepositories

SpecAll == Init /\ [][NextAll]_vars

----------------------------------------------------------------------------
\* Claims checked under Spec

LedgerRows(message_id) == { mc \in message_commits : mc.message_id = message_id }

\* C1: in the list GET /api/messages sends, every message whose POST was
\* answered 201 is present with the content and timestamp of that answer, and
\* with an empty repositories map when it has no row in message_commits.
C1_LocalStoreAuthority ==
    response.op = "GET /api/messages" =>
        \A a \in acked :
            \E i \in DOMAIN response.list :
                /\ response.list[i].id = a.id
                /\ response.list[i].content = a.content
                /\ response.list[i].timestamp = a.timestamp
                /\ LedgerRows(a.id) = {} => response.list[i].repositories = NoHashes

\* A list that holds a message no target took and a message some target took.
C1_Witness ==
    /\ response.op = "GET /api/messages"
    /\ \E a, b \in acked :
         /\ LedgerRows(a.id) = {}
         /\ LedgerRows(b.id) # {}
         /\ \E i, j \in DOMAIN response.list :
              /\ response.list[i].id = a.id
              /\ response.list[i].repositories = NoHashes
              /\ response.list[j].id = b.id

\* C2: once POST /api/messages has answered 201, every key of the map that
\* store_message returned is a key of the message's repositories map in
\* get_messages, with a hash that is not empty.
C2_LedgerHasEverySuccess ==
    \A a \in acked :
        \A k \in DOMAIN a.repositories :
            \A l \in get_messages(DefaultLimit, 0) :
                \E i \in DOMAIN l :
                    /\ l[i].id = a.id
                    /\ k \in DOMAIN l[i].repositories
                    /\ l[i].repositories[k] # NULL

\* C3: when store_message returns, every repo_config has been attempted, in
\* order; a target whose calls succeeded has its hash in the returned map and
\* a target whose calls failed has no key in it.
C3_FanOutIsolation ==
    req.pc = "record" =>
        /\ Len(req.outcomes) = Len(repos_config)
        /\ \A i \in DOMAIN req.outcomes :
             LET o == req.outcomes[i]
             IN /\ o.key = repo_path(repos_config[i].owner, repos_config[i].name)
                /\ o.ok => /\ o.key \in DOMAIN req.commit_hashes
                           /\ (\A j \in DOMAIN req.outcomes :
                                   (j > i /\ req.outcomes[j].ok) => req.outcomes[j].key # o.key)
                               => req.commit_hashes[o.key] = o.sha
                /\ (\A j \in DOMAIN req.outcomes :
                        req.outcomes[j].key = o.key => ~req.outcomes[j].ok)
                       => o.key \notin DOMAIN req.commit_hashes

\* store_message has returned after a target that failed and a later one that
\* succeeded.
C3_Witness ==
    /\ req.pc = "record"
    /\ \E i, j \in DOMAIN req.outcomes :
         i < j /\ ~req.outcomes[i].ok /\ req.outcomes[j].ok

DistinctTimestamps ==
    \A i, j \in DOMAIN messages :
        i # j => messages[i].timestamp # messages[j].timestamp

FilesOf(message_id) ==
    UNION { { <<bk, i>> : i \in { j \in DOMAIN remote[bk] :
                                     remote[bk][j].envelope.id = message_id } }
            : bk \in BranchKeys }

\* C6: with no target in the registry, store_message returns an empty map
\* without attempting a target, and the request is answered 201 with an empty
\* map, no file written, no ledger row, and the message in the list.
C6_ZeroTargets ==
    /\ (req.pc = "record" /\ repos_config = <<>>) =>
           (req.commit_hashes = NoHashes /\ req.outcomes = <<>>)
    /\ (response.op = "POST /api/messages" /\ response.status # BAD_REQUEST
            /\ repos_config = <<>>) =>
           /\ response.status = CREATED
           /\ response.repositories = NoHashes
           /\ LedgerRows(response.id) = {}
           /\ FilesOf(response.id) = {}
           /\ \A l \in get_messages(DefaultLimit, 0) :
                \E i \in DOMAIN l :
                    /\ l[i].id = response.id
                    /\ l[i].content = response.content
                    /\ l[i].timestamp = response.timestamp
                    /\ l[i].repositories = NoHashes

\* A message has been created while the registry was empty.
C6_Witness ==
    /\ response.op = "POST /api/messages"
    /\ response.status = CREATED
    /\ config.exists
    /\ config.repos = <<>>
    /\ response.id \in MessageIds

\* C7: a POST /api/repositories that is answered with an error leaves the
\* registry document and the repositories table as they were.
C7_FailedRegistrationChangesNothing ==
    [][(response'.op = "POST /api/repositories"
            /\ response'.status = INTERNAL_SERVER_ERROR)
          => (repositories' = repositories /\ config'.repos = repos_config)]_vars

Blank(content) == \A i \in DOMAIN content : content[i] = Space

\* C9: a POST /api/messages answered 400 changes no table, no remote branch
\* and starts no fan-out, and no content that is blank is ever stored: a body
\* without content, or with empty or whitespace-only content, is rejected.
C9_Validation ==
    [][/\ (response'.op = "POST /api/messages" /\ response'.status = BAD_REQUEST)
           => /\ messages' = messages
              /\ message_commits' = message_commits
              /\ remote' = remote
              /\ req' = IdleReq
       /\ \A i \in DOMAIN messages' : ~Blank(messages'[i].content)
       /\ \A bk \in BranchKeys : \A i \in DOMAIN remote'[bk] :
              ~Blank(remote'[bk][i].envelope.content)]_vars

\* A body has been rejected while messages were stored.
C9_Witness ==
    /\ response.op = "POST /api/messages"
    /\ response.status = BAD_REQUEST
    /\ messages # <<>>

\* C12: in the list GET /api/messages sends, messages whose timestamps are
\* equal are in descending order of id.
C12_TieBreakByIdDesc ==
    response.op = "GET /api/messages" =>
        \A i, j \in DOMAIN response.list :
            (i < j /\ response.list[i].timestamp = response.list[j].timestamp)
                => response.list[i].id > response.list[j].id

\* C13: every file written to a target is at <message_path>/message_<id>.json
\* and its envelope has the id, the content and the timestamp of the row of
\* messages with that id, so the envelopes of one message are the same on all
\* targets.
C13_EnvelopeFidelity ==
    \A bk \in BranchKeys : \A i \in DOMAIN remote[bk] :
        LET c == remote[bk][i]
        IN \E m \in Range(messages) :
               /\ c.path[2] = m.id
               /\ c.envelope.id = m.id
               /\ c.envelope.content = m.content
               /\ c.envelope.timestamp = m.timestamp

\* C18: within one POST /api/messages the row is inserted first, with its id,
\* before any target is attempted; a file is written only for a message whose
\* row is in the table; the targets are attempted one by one in the order of
\* the registry; and the ledger is written and the response sent only when
\* every target has been attempted.
C18_WritePathOrder ==
    [][/\ messages' # messages =>
            /\ req.pc = "idle"
            /\ req'.outcomes = <<>>
            /\ req'.message_id = messages'[Len(messages')].id
            /\ remote' = remote
            /\ message_commits' = message_commits
       /\ remote' # remote =>
            /\ req.message_id \in MessageIds
            /\ messages' = messages
            /\ message_commits' = message_commits
            /\ response' = response
       /\ req'.outcomes # req.outcomes =>
            \/ req'.outcomes = <<>>
            \/ /\ Len(req'.outcomes) = Len(req.outcomes) + 1
               /\ Len(req'.outcomes) = req.idx
               /\ req'.outcomes[req.idx].key
                      = repo_path(repos_config[req.idx].owner, repos_config[req.idx].name)
       /\ (message_commits' # message_commits
              \/ (response'.op = "POST /api/messages"
                    /\ response'.status \in { CREATED, INTERNAL_SERVER_ERROR })) =>
            /\ req.pc = "record"
            /\ req.message_id \in MessageIds
            /\ Len(req.outcomes) = Len(repos_config)
            /\ response'.op = "POST /api/messages"
            /\ response'.status = CREATED =>
                   /\ response'.id = req.message_id
                   /\ response'.repositories = req.commit_hashes]_vars

\* A request with two targets has been answered with both in its map and in
\* the ledger.
C18_Witness ==
    /\ response.op = "POST /api/messages"
    /\ response.status = CREATED
    /\ Cardinality(DOMAIN response.repositories) = 2
    /\ Cardinality(LedgerRows(response.id)) = 2

\* C19: once POST /api/messages is answered 201, a target of the registry
\* that is not a key of the returned map holds no file of the message.
C19_AbsentMeansNotMirrored ==
    (response.op = "POST /api/messages" /\ response.status = CREATED) =>
        \A t \in Range(repos_config) :
            repo_path(t.owner, t.name) \notin DOMAIN response.repositories
                => ~FileExists(BranchOf(t), file_path(t, response.id))

\* C21: remove_repository(owner, name) leaves in the registry the targets of
\* another owner or name, as they were and in their order, and none of that
\* owner and name; it changes no table; and the list GET /api/messages sends
\* has every ledger row under its repository, whether or not the registry
\* still lists that repository.
C21_RemoveRepositoryFrame ==
    [][/\ response'.op = "remove_repository" =>
            LET k == response'.list[1]
            IN /\ config'.repos
                    = SelectSeq(repos_config,
                                LAMBDA t : ~(t.owner = k[1] /\ t.name = k[2]))
               /\ \A t \in Range(config'.repos) : <<t.owner, t.name>> # k
               /\ messages' = messages
               /\ repositories' = repositories
               /\ message_commits' = message_commits
       /\ response'.op = "GET /api/messages" =>
            \A mc \in message_commits' : \A r \in Range(repositories') :
                r.id = mc.repository_id =>
                    \E i \in DOMAIN response'.list :
                        /\ response'.list[i].id = mc.message_id
                        /\ repo_path(r.owner, r.name)
                               \in DOMAIN response'.list[i].repositories
                        /\ response'.list[i].repositories[repo_path(r.owner, r.name)]
                               = mc.commit_hash]_vars

\* The list sent holds a ledger entry of a repository that was removed from
\* the registry while another target stayed.
C21_Witness ==
    /\ response.op = "GET /api/messages"
    /\ config.exists
    /\ config.repos # <<>>
    /\ \E i \in DOMAIN response.list :
         \E key \in DOMAIN response.list[i].repositories :
             \A t \in Range(config.repos) : repo_path(t.owner, t.name) # key

\* C24: once repositories.json is written, the (owner, name) pairs of its
\* targets are the (owner, name) pairs of the rows of the repositories table.
C24_RegistryConsistency ==
    config.exists =>
        { <<t.owner, t.name>> : t \in Range(config.repos) }
            = { <<r.owner, r.name>> : r \in Range(repositories) }

\* C27: when POST /api/messages has just been answered 201, the repositories
\* map that get_messages reports for the message is the map of the response.
C27_ResponseMapIsLedger ==
    (response.op = "POST /api/messages" /\ response.status = CREATED) =>
        \A l \in get_messages(DefaultLimit, 0) :
            \E i \in DOMAIN l :
                /\ l[i].id = response.id
                /\ l[i].repositories = response.repositories

----------------------------------------------------------------------------
\* Claims checked under SpecRemote

\* The targets of the registry whose fetch did not fail in the last read
Fetched == { i \in DOMAIN repos_config : i \notin response.failing }

\* The commits that wrote a file under the target's message_path
StoredFiles(t) ==
    { c \in Range(remote[<<t.owner, t.name, DefaultBranch>>]) :
          c.path[1] = t.message_path }

Tagged(c, t) ==
    [id |-> c.envelope.id, content |-> c.envelope.content,
     timestamp |-> c.envelope.timestamp, repository |-> repo_path(t.owner, t.name)]

\* C8: get_all_messages returns the envelopes of the fetched repositories, no
\* more and no fewer, each tagged owner/name of its repository, in ascending
\* order of the envelope's timestamp.
C8_RemoteMerge ==
    response.op = "get_all_messages" =>
        /\ \A i, j \in DOMAIN response.list :
             i < j => response.list[i].timestamp <= response.list[j].timestamp
        /\ \A x \in Range(response.list) :
             \E i \in Fetched : \E c \in StoredFiles(repos_config[i]) :
                 x = Tagged(c, repos_config[i])
        /\ \A i \in Fetched : \A c \in StoredFiles(repos_config[i]) :
             \E k \in DOMAIN response.list :
                 response.list[k] = Tagged(c, repos_config[i])
        /\ Len(response.list) =
               Cardinality({ <<i, c>> \in Fetched \X UNION { StoredFiles(repos_config[i])
                                                               : i \in Fetched } :
                                 c \in StoredFiles(repos_config[i]) })

\* Envelopes of two repositories were merged, and the order returned is not
\* the order in which they were gathered.
C8_Witness ==
    /\ response.op = "get_all_messages"
    /\ response.list # Gathered(repos_config, response.failing)
    /\ \E i, j \in DOMAIN response.list :
         /\ i < j
         /\ response.list[i].repository # response.list[j].repository
         /\ response.list[i].timestamp < response.list[j].timestamp

\* The keys of the repositories whose fetch failed in the last read
FailedKeys ==
    { repo_path(repos_config[i].owner, repos_config[i].name) : i \in response.failing }

\* C26: get_all_messages returns whatever fetches fail, all of them included;
\* a repository whose fetch failed contributes nothing, and what is returned is
\* what the read returns when no fetch fails without the envelopes of the
\* repositories that failed, in the same order.
C26_RemoteReadIsolation ==
    response.op = "get_all_messages" =>
        /\ response.list
               = SelectSeq(get_all_messages({}), LAMBDA x : x.repository \notin FailedKeys)
        /\ \A x \in Range(response.list) : x.repository \notin FailedKeys
        /\ \A i \in Fetched : \A c \in StoredFiles(repos_config[i]) :
               Tagged(c, repos_config[i]) \in Range(response.list)

\* The fetch of a repository that holds files failed and the read returned
\* the envelopes of another one.
C26_Witness ==
    /\ response.op = "get_all_messages"
    /\ \E i \in response.failing : StoredFiles(repos_config[i]) # {}
    /\ response.list # <<>>

----------------------------------------------------------------------------
\* Claims checked under SpecFreshDb

\* C5: when store_message is called for a message id whose file a target
\* already holds and the remote answers, the call updates that file: the
\* target succeeds and is in the returned map.
C5_SecondStoreUpdates ==
    req.pc = "record" =>
        \A i \in DOMAIN req.outcomes :
            (req.outcomes[i].existed /\ req.outcomes[i].why # "unavailable")
                => (req.outcomes[i].ok /\ req.outcomes[i].key \in DOMAIN req.commit_hashes)

----------------------------------------------------------------------------
\* Claims checked under SpecLedger

\* The response is that of a call of update_message_commits that returned;
\* it carries the call's message id and map.
IsLedgerCall(r) == r.op = "update_message_commits" /\ r.status = OK

RowsOf(rows, pair) ==
    { mc \in rows : mc.message_id = pair[1] /\ mc.repository_id = pair[2] }

AllPairs == (1..MaxMessages) \X { r.id : r \in Range(repositories) }

\* C10: the ledger never holds two rows for one (message_id, repository) pair,
\* and a call of update_message_commits that returns leaves each pair it names
\* with the hash it gave and every other pair with the rows it had.
C10_LedgerUpsert ==
    [][/\ \A pair \in AllPairs : Cardinality(RowsOf(message_commits', pair)) <= 1
       /\ IsLedgerCall(response') =>
            \A pair \in AllPairs :
                IF pair \in NamedPairs(response'.id, response'.repositories)
                THEN \E r \in Range(repositories) :
                        /\ r.id = pair[2]
                        /\ RowsOf(message_commits', pair) =
                             { [message_id |-> pair[1], repository_id |-> pair[2],
                                commit_hash |->
                                    response'.repositories[repo_path(r.owner, r.name)]] }
                ELSE RowsOf(message_commits', pair) = RowsOf(message_commits, pair)]_vars

\* A call replaced the hash of one pair and left a pair it did not name.
C10_Witness ==
    /\ response.op = "update_message_commits"
    /\ response.status = OK
    /\ \E old \in response.replaced :
         \E mc \in message_commits :
             /\ mc.message_id = old.message_id
             /\ mc.repository_id = old.repository_id
             /\ mc.commit_hash # old.commit_hash
    /\ \E mc \in message_commits :
         <<mc.message_id, mc.repository_id>>
             \notin NamedPairs(response.id, response.repositories)

\* The keys of a map that have a row in the repositories table
RegisteredKeys(commit_hashes) ==
    { k \in DOMAIN commit_hashes :
          \E r \in Range(repositories) : repo_path(r.owner, r.name) = k }

\* C11: every ledger row names a message that exists and a repository that has
\* a row in the repositories table, and a row that update_message_commits writes
\* is for the message id of the call, which exists, and for a repository that
\* was registered when the call was made and is a key of the call's map; a call
\* for a message id that does not exist, or for keys that are not registered,
\* writes no row.
C11_LedgerReferences ==
    [][/\ \A mc \in message_commits' :
            /\ mc.message_id \in { m.id : m \in Range(messages') }
            /\ \E r \in Range(repositories') : r.id = mc.repository_id
       /\ \A mc \in message_commits' \ message_commits :
            /\ response'.op = "update_message_commits"
            /\ mc.message_id = response'.id
            /\ mc.message_id \in MessageIds
            /\ \E r \in Range(repositories) :
                  /\ r.id = mc.repository_id
                  /\ repo_path(r.owner, r.name) \in DOMAIN response'.repositories
       /\ (response'.op = "update_message_commits"
              /\ (response'.id \notin MessageIds
                    \/ RegisteredKeys(response'.repositories) = {}))
            => message_commits' = message_commits]_vars

\* A call named a registered and an unregistered repository for a message that
\* exists: it returned and the ledger has the message's row for the registered
\* one only.
C11_Witness ==
    /\ response.op = "update_message_commits"
    /\ response.status = OK
    /\ response.id \in MessageIds
    /\ RegisteredKeys(response.repositories) # {}
    /\ RegisteredKeys(response.repositories) # DOMAIN response.repositories
    /\ Cardinality(LedgerRows(response.id)) = 1

----------------------------------------------------------------------------
\* Claims checked under SpecRegistry

\* C14: the registry document never lists two targets with the same owner and
\* name.
C14_RegistryUnique ==
    \A i, j \in DOMAIN config.repos :
        (config.repos[i].owner = config.repos[j].owner
            /\ config.repos[i].name = config.repos[j].name) => i = j

----------------------------------------------------------------------------
\* Claims checked under SpecLocalFailure

\* C15: when POST /api/messages is answered 500 because the insert or the
\* ledger update raised, the messages table holds no row that the request
\* inserted.
C15_LocalFailureAllOrNothing ==
    [][(response'.op = "POST /api/messages"
            /\ response'.status = INTERNAL_SERVER_ERROR)
          => \A m \in Range(messages') : m.id # req.message_id]_vars

----------------------------------------------------------------------------
\* Claims checked under SpecLive

----------------------------------------------------------------------------
\* Claims checked under SpecPush

\* C17: push_repositories reports on every repository of the list, in the
\* order of the list: a repository whose get_repo raised is reported as an
\* error, one whose get_branch raised as a warning, and every other one as
\* pushed, whatever happened to the repositories before it.
C17_PushNoFailFast ==
    response.op = "push_repositories" =>
        /\ Len(response.list) = Len(config.repos)
        /\ \A i \in DOMAIN response.list :
             /\ response.list[i].repository
                    = repo_path(config.repos[i].owner, config.repos[i].name)
             /\ response.list[i].status =
                    IF <<i, "get_repo">> \in response.failing THEN "error"
                    ELSE IF <<i, "get_branch">> \in response.failing THEN "warning"
                    ELSE "pushed"

\* A run whose first repository failed and whose second was pushed.
C17_Witness ==
    /\ response.op = "push_repositories"
    /\ Len(response.list) = 2
    /\ response.list[1].status \in { "error", "warning" }
    /\ response.list[2].status = "pushed"

----------------------------------------------------------------------------
\* Claims checked under SpecAll

\* C20: a step of any operation leaves the messages table as it was or appends
\* one row to it, and the id of the row appended is greater than every id in
\* the table, which holds every id assigned so far.
C20_AppendOnly ==
    [][\/ messages' = messages
       \/ /\ Len(messages') = Len(messages) + 1
          /\ SubSeq(messages', 1, Len(messages)) = messages
          /\ \A m \in Range(messages) : m.id < messages'[Len(messages')].id
          /\ \A a \in acked : a.id < messages'[Len(messages')].id]_vars

\* Two messages are stored, the first answered 201, and the registry has been
\* read by the CLI or the remotes by get_all_messages since.
C20_Witness ==
    /\ Len(messages) = 2
    /\ messages[1].id < messages[2].id
    /\ \E a \in acked : a.id = messages[1].id
    /\ response.op \in { "push_repositories", "get_all_messages" }

----------------------------------------------------------------------------
\* Claims checked under SpecInterleaved

\* C22: when store_message returns, the hash it holds for a target is the sha
\* of the commit that wrote the message's file on that target's branch.
C22_CommitAttribution ==
    req.pc = "record" =>
        \A i \in DOMAIN req.outcomes :
            req.outcomes[i].ok =>
                LET t == repos_config[i]
                    bk == req.outcomes[i].sha[1]
                    n == req.outcomes[i].sha[2]
                IN /\ bk = BranchOf(t)
                   /\ n \in DOMAIN remote[bk]
                   /\ remote[bk][n].path = file_path(t, req.message_id)

----------------------------------------------------------------------------
\* Claims checked under SpecPages

Min(a, b) == IF a < b THEN a ELSE b

\* The repositories map of a message: all of its ledger rows
FullMap(message_id) ==
    { <<repo_path(r.owner, r.name), mc.commit_hash>> :
        <<mc, r>> \in { x \in LedgerRows(message_id) \X Range(repositories) :
                          x[1].repository_id = x[2].id } }

\* C23: get_messages(limit, offset) returns min(limit, max(M - offset, 0))
\* distinct messages of the M stored, newest first, and each of them carries
\* all of its ledger entries.
C23_PaginationCountsMessages ==
    response.op = "get_messages" =>
        LET limit == response.content[1]
            offset == response.content[2]
            M == Len(messages)
            l == response.list
        IN /\ Len(l) = Min(limit, IF M - offset > 0 THEN M - offset ELSE 0)
           /\ \A i, j \in DOMAIN l : i # j => l[i].id # l[j].id
           /\ \A i, j \in DOMAIN l : i < j => l[i].timestamp >= l[j].timestamp
           /\ \A i \in DOMAIN l :
                { <<k, l[i].repositories[k]>> : k \in DOMAIN l[i].repositories }
                    = FullMap(l[i].id)

----------------------------------------------------------------------------
\* Claims checked under SpecAtomic

\* C25: a call of update_message_commits that raises leaves the ledger exactly
\* as it was, and a call that returns has written, for the message of the call,
\* the hash of every key that has a row in the repositories table.
C25_LedgerWriteAtomic ==
    [][response'.op = "update_message_commits" =>
          IF response'.status = INTERNAL_SERVER_ERROR
          THEN message_commits' = message_commits
          ELSE \A k \in RegisteredKeys(response'.repositories) :
                   \E mc \in message_commits' : \E r \in Range(repositories) :
                       /\ mc.message_id = response'.id
                       /\ mc.repository_id = r.id
                       /\ repo_path(r.owner, r.name) = k
                       /\ mc.commit_hash = response'.repositories[k]]_vars

\* A call for a message that exists raised at a malformed key that came after
\* a registered one, whose row had been written: the ledger does not have it.
C25_Witness ==
    /\ response.op = "update_message_commits"
    /\ response.status = INTERNAL_SERVER_ERROR
    /\ response.id \in MessageIds
    /\ Len(response.list) >= 2
    /\ response.list[1] \in RegisteredKeys(response.repositories)
    /\ response.list[2] = MalformedKey
    /\ LedgerRows(response.id) = {}

====
